---------------------------- MODULE Spec2Model ----------------------------
(***************************************************************************)
(* db-migration-validator: the four validators (row count, column,         *)
(* constraint, routine), the orchestrator main() that drives them over the *)
(* schemas and tables common to a source and a target database, and the    *)
(* Oracle and Redshift connectors they query.                              *)
(*                                                                         *)
(* Python values are represented as follows.                               *)
(*   str used as an identifier : a sequence of one-character strings, so   *)
(*       that str.upper() and the code-point order of sorted() are         *)
(*       computed character by character;                                  *)
(*   other str (type names, sentinels, statuses) : a TLA+ string;          *)
(*   None / a value that may be None : << >> / << v >>;                    *)
(*   list : a sequence;  dict : a function;  set : a set.                  *)
(***************************************************************************)
EXTENDS Integers, Sequences, FiniteSets, TLC

VARIABLES
    pc,                  \* position of main(), or of the validator call under test,
                         \* or the outcome of the last connector call
    db,                  \* db[side]: the (schema, table) entries of each database
    conn,                \* conn[side]: "none" | "open" | "closed" (self.connection)
    closes,              \* closes[side]: how often a driver connection's close() ran
    schemas,             \* main: common_schemas, the part not yet visited
    tables,              \* main: common_tables of the current schema, not yet visited
    row_count_results,   \* main: row_count_results
    column_results,      \* main: column_results / ColumnValidator.validate's results
    constraint_results,  \* main: constraint_results / ConstraintValidator.validate's results
    routine_results,     \* main: routine_results / RoutineValidator.validate's results
    fetched,             \* the snapshots the providers returned to the validator call
    calls,               \* every provider call and reporter.write made so far, in order
    report,              \* << >>, or << the four sequences handed to ExcelReporter.write >>
    error                \* << >>, or << the call that raised >>

vars == <<pc, db, conn, closes, schemas, tables, row_count_results, column_results,
          constraint_results, routine_results, fetched, calls, report, error>>

-----------------------------------------------------------------------------
(* Python values *)

None == << >>

Some(v) == << v >>

Sides == {"source", "target"}

LowerCase == <<"a","b","c","d","e","f","g","h","i","j","k","l","m",
               "n","o","p","q","r","s","t","u","v","w","x","y","z">>

UpperCase == <<"A","B","C","D","E","F","G","H","I","J","K","L","M",
               "N","O","P","Q","R","S","T","U","V","W","X","Y","Z">>

\* the characters identifiers are made of: A-Z, _, a-z
Characters == {LowerCase[i] : i \in DOMAIN LowerCase}
              \cup {UpperCase[i] : i \in DOMAIN UpperCase} \cup {"_"}

IsLower(c) == \E i \in DOMAIN LowerCase : LowerCase[i] = c

IsUpper(c) == \E i \in DOMAIN UpperCase : UpperCase[i] = c

LetterIndex(alphabet, c) == CHOOSE i \in DOMAIN alphabet : alphabet[i] = c

\* ord(c), as a table over the characters
Ord ==
    [c \in Characters |->
        IF IsUpper(c) THEN 64 + LetterIndex(UpperCase, c)
        ELSE IF IsLower(c) THEN 96 + LetterIndex(LowerCase, c)
        ELSE 95]

\* c.upper() for one character, as a table over the characters
UpperChar ==
    [c \in Characters |->
        IF IsLower(c) THEN UpperCase[LetterIndex(LowerCase, c)] ELSE c]

\* a validator that forgets to normalise the case of a name
UpperForgotten(s) == s

\* str.upper()
Upper(s) == [i \in DOMAIN s |-> UpperChar[s[i]]]

\* a < b for two str: the first differing character decides, a proper prefix is smaller.
StrLess(a, b) ==
    \/ /\ Len(a) < Len(b)
       /\ \A i \in 1..Len(a) : a[i] = b[i]
    \/ \E i \in 1..Len(a) :
          /\ i <= Len(b)
          /\ \A j \in 1..(i - 1) : a[j] = b[j]
          /\ Ord[a[i]] < Ord[b[i]]

RECURSIVE SortedDescending(_)
\* a sort with the comparison turned round
SortedDescending(S) ==
    IF S = {} THEN << >>
    ELSE LET m == CHOOSE x \in S : \A y \in S : x = y \/ StrLess(y, x)
         IN  <<m>> \o SortedDescending(S \ {m})

RECURSIVE Sorted(_)
\* sorted(S) for a set S of str
Sorted(S) ==
    IF S = {} THEN << >>
    ELSE LET m == CHOOSE x \in S : \A y \in S : x = y \/ StrLess(x, y)
         IN  <<m>> \o Sorted(S \ {m})

\* set(list)
Range(s) == {s[i] : i \in DOMAIN s}

\* dict.get(key): None when the key is absent
DictGet(map, key) == IF key \in DOMAIN map THEN Some(map[key]) ELSE None

RECURSIVE Concat(_)
Concat(ss) == IF ss = << >> THEN << >> ELSE Head(ss) \o Concat(Tail(ss))

-----------------------------------------------------------------------------
(* ColumnValidator.validate *)

\* a map that keeps the first entry of a key and not the last
ColumnMapFirst(columns) ==
    [k \in {Upper(columns[i].column_name) : i \in DOMAIN columns} |->
        LET first == CHOOSE i \in DOMAIN columns :
                         /\ Upper(columns[i].column_name) = k
                         /\ \A j \in DOMAIN columns :
                               Upper(columns[j].column_name) = k => i <= j
        IN  columns[first]]

\* {col["column_name"].upper(): col for col in columns}: a later entry replaces
\* an earlier one with the same key.
ColumnMap(columns) ==
    [k \in {Upper(columns[i].column_name) : i \in DOMAIN columns} |->
        LET last == CHOOSE i \in DOMAIN columns :
                        /\ Upper(columns[i].column_name) = k
                        /\ \A j \in DOMAIN columns :
                              Upper(columns[j].column_name) = k => j <= i
        IN  columns[last]]

\* truth value of source_col / target_col: a column dict is never empty, so
\* only None is false.
ColTruthy(col) == col # None

ColumnRecord(schema, table, column_name, check_type, src_val, tgt_val, status) ==
    [schema |-> schema, table |-> table, column |-> column_name,
     check_type |-> check_type, source_value |-> src_val,
     target_value |-> tgt_val, status |-> status]

\* the checks dict with the LENGTH entry reading the target's precision
ColumnChecksCrossed(source_col, target_col) ==
    << <<"DATA_TYPE", source_col.data_type, target_col.data_type>>,
       <<"LENGTH", source_col.length, target_col.precision>>,
       <<"PRECISION", source_col.precision, target_col.precision>>,
       <<"SCALE", source_col.scale, target_col.scale>> >>

\* the checks dict, in insertion order
ColumnChecks(source_col, target_col) ==
    << <<"DATA_TYPE", source_col.data_type, target_col.data_type>>,
       <<"LENGTH", source_col.length, target_col.length>>,
       <<"PRECISION", source_col.precision, target_col.precision>>,
       <<"SCALE", source_col.scale, target_col.scale>> >>

ColumnStatus(src_val, tgt_val) == IF src_val = tgt_val THEN "MATCH" ELSE "MISMATCH"

\* the loop body with the second existence record copied from the first,
\* its two values left as they were
ColumnRecordsCopied(source_map, target_map, schema, table, column_name) ==
    LET source_col == DictGet(source_map, column_name)
        target_col == DictGet(target_map, column_name)
    IN  IF ColTruthy(source_col) /\ ~ColTruthy(target_col)
        THEN << ColumnRecord(schema, table, column_name, "COLUMN_EXISTENCE",
                             "PRESENT", "MISSING", "MISMATCH") >>
        ELSE IF ColTruthy(target_col) /\ ~ColTruthy(source_col)
        THEN << ColumnRecord(schema, table, column_name, "COLUMN_EXISTENCE",
                             "PRESENT", "MISSING", "MISMATCH") >>
        ELSE LET checks == ColumnChecks(source_col[1], target_col[1])
             IN  [i \in DOMAIN checks |->
                     ColumnRecord(schema, table, column_name, checks[i][1],
                                  checks[i][2], checks[i][3],
                                  ColumnStatus(checks[i][2], checks[i][3]))]

\* the records one iteration of "for column_name in all_columns" appends
ColumnRecords(source_map, target_map, schema, table, column_name) ==
    LET source_col == DictGet(source_map, column_name)
        target_col == DictGet(target_map, column_name)
    IN  IF ColTruthy(source_col) /\ ~ColTruthy(target_col)
        THEN << ColumnRecord(schema, table, column_name, "COLUMN_EXISTENCE",
                             "PRESENT", "MISSING", "MISMATCH") >>
        ELSE IF ColTruthy(target_col) /\ ~ColTruthy(source_col)
        THEN << ColumnRecord(schema, table, column_name, "COLUMN_EXISTENCE",
                             "MISSING", "PRESENT", "MISMATCH") >>
        ELSE LET checks == ColumnChecks(source_col[1], target_col[1])
             IN  [i \in DOMAIN checks |->
                     ColumnRecord(schema, table, column_name, checks[i][1],
                                  checks[i][2], checks[i][3],
                                  ColumnStatus(checks[i][2], checks[i][3]))]

\* ColumnValidator.validate, given what the two get_columns calls returned
ColumnValidate(source_columns, target_columns, schema, table) ==
    LET source_map  == ColumnMap(source_columns)
        target_map  == ColumnMap(target_columns)
        all_columns == Sorted(DOMAIN source_map \cup DOMAIN target_map)
    IN  Concat([i \in DOMAIN all_columns |->
                   ColumnRecords(source_map, target_map, schema, table,
                                 all_columns[i])])

-----------------------------------------------------------------------------
(* ConstraintValidator.validate *)

\* {c["constraint_name"].upper(): c["constraint_type"] for c in constraints}
ConstraintMap(constraints) ==
    [k \in {Upper(constraints[i].constraint_name) : i \in DOMAIN constraints} |->
        LET last == CHOOSE i \in DOMAIN constraints :
                        /\ Upper(constraints[i].constraint_name) = k
                        /\ \A j \in DOMAIN constraints :
                              Upper(constraints[j].constraint_name) = k => j <= i
        IN  constraints[last].constraint_type]

\* truth value of src_type / tgt_type: None and the empty str are false
TypeTruthy(type) == type # None /\ type[1] # ""

\* the Python value of src_type / tgt_type as it is stored in a record
TypeValue(type) == IF type = None THEN None ELSE type[1]

ConstraintRecord(schema, table, constraint_name, check_type, src_val, tgt_val, status) ==
    [schema |-> schema, table |-> table, constraint |-> constraint_name,
     check_type |-> check_type, source_value |-> src_val,
     target_value |-> tgt_val, status |-> status]

\* a status that only asks whether both sides report a type
ConstraintStatusLoose(src_type, tgt_type) ==
    IF TypeTruthy(src_type) = TypeTruthy(tgt_type) THEN "MATCH" ELSE "MISMATCH"

\* status = "MATCH" if src_type == tgt_type else "MISMATCH"
ConstraintStatus(src_type, tgt_type) ==
    IF src_type = tgt_type THEN "MATCH" ELSE "MISMATCH"

\* the loop body with the two values of the second existence record exchanged
ConstraintRecordsExchanged(source_map, target_map, schema, table, constraint_name) ==
    LET src_type == DictGet(source_map, constraint_name)
        tgt_type == DictGet(target_map, constraint_name)
    IN  IF TypeTruthy(src_type) /\ ~TypeTruthy(tgt_type)
        THEN ConstraintRecord(schema, table, constraint_name, "CONSTRAINT_EXISTENCE",
                              TypeValue(src_type), "MISSING", "MISMATCH")
        ELSE IF TypeTruthy(tgt_type) /\ ~TypeTruthy(src_type)
        THEN ConstraintRecord(schema, table, constraint_name, "CONSTRAINT_EXISTENCE",
                              TypeValue(tgt_type), "MISSING", "MISMATCH")
        ELSE ConstraintRecord(schema, table, constraint_name, "CONSTRAINT_TYPE",
                              TypeValue(src_type), TypeValue(tgt_type),
                              ConstraintStatus(src_type, tgt_type))

\* the record one iteration of "for constraint_name in all_constraints" appends
ConstraintRecords(source_map, target_map, schema, table, constraint_name) ==
    LET src_type == DictGet(source_map, constraint_name)
        tgt_type == DictGet(target_map, constraint_name)
    IN  IF TypeTruthy(src_type) /\ ~TypeTruthy(tgt_type)
        THEN ConstraintRecord(schema, table, constraint_name, "CONSTRAINT_EXISTENCE",
                              TypeValue(src_type), "MISSING", "MISMATCH")
        ELSE IF TypeTruthy(tgt_type) /\ ~TypeTruthy(src_type)
        THEN ConstraintRecord(schema, table, constraint_name, "CONSTRAINT_EXISTENCE",
                              "MISSING", TypeValue(tgt_type), "MISMATCH")
        ELSE ConstraintRecord(schema, table, constraint_name, "CONSTRAINT_TYPE",
                              TypeValue(src_type), TypeValue(tgt_type),
                              ConstraintStatus(src_type, tgt_type))

\* ConstraintValidator.validate, given what the two get_constraints calls returned
ConstraintValidate(source_constraints, target_constraints, schema, table) ==
    LET source_map      == ConstraintMap(source_constraints)
        target_map      == ConstraintMap(target_constraints)
        all_constraints == Sorted(DOMAIN source_map \cup DOMAIN target_map)
    IN  [i \in DOMAIN all_constraints |->
            ConstraintRecords(source_map, target_map, schema, table,
                              all_constraints[i])]

-----------------------------------------------------------------------------
(* RoutineValidator *)

ObjectTypes == <<"PROCEDURE", "FUNCTION", "TRIGGER">>

RoutineRecord(object_type, obj, source_value, target_value, status) ==
    [object_type |-> object_type, object_name |-> obj,
     source_value |-> source_value, target_value |-> target_value,
     status |-> status]

\* the loop body asking first whether the source has the object
ObjectRecordSourceFirst(source_set, target_set, object_type, obj) ==
    IF obj \in source_set
    THEN RoutineRecord(object_type, obj, "PRESENT", "MISSING", "MISMATCH")
    ELSE IF obj \in source_set /\ obj \in target_set
    THEN RoutineRecord(object_type, obj, "PRESENT", "PRESENT", "MATCH")
    ELSE RoutineRecord(object_type, obj, "MISSING", "PRESENT", "MISMATCH")

\* the record one iteration of "for obj in all_objects" appends
ObjectRecord(source_set, target_set, object_type, obj) ==
    IF obj \in source_set /\ obj \in target_set
    THEN RoutineRecord(object_type, obj, "PRESENT", "PRESENT", "MATCH")
    ELSE IF obj \in source_set
    THEN RoutineRecord(object_type, obj, "PRESENT", "MISSING", "MISMATCH")
    ELSE RoutineRecord(object_type, obj, "MISSING", "PRESENT", "MISMATCH")

\* RoutineValidator._validate_object
ValidateObject(source_objects, target_objects, object_type) ==
    LET source_set  == {Upper(source_objects[i]) : i \in DOMAIN source_objects}
        target_set  == {Upper(target_objects[i]) : i \in DOMAIN target_objects}
        all_objects == Sorted(source_set \cup target_set)
    IN  [i \in DOMAIN all_objects |->
            ObjectRecord(source_set, target_set, object_type, all_objects[i])]

\* validate with the function comparison reading the source's procedures
RoutineValidateMixed(source, target) ==
    ValidateObject(source.procedures, target.procedures, "PROCEDURE")
    \o ValidateObject(source.procedures, target.functions, "FUNCTION")
    \o ValidateObject(source.triggers, target.triggers, "TRIGGER")

\* RoutineValidator.validate, given what get_procedures, get_functions and
\* get_triggers returned on each side (a record of three lists per side)
RoutineValidate(source, target) ==
    ValidateObject(source.procedures, target.procedures, "PROCEDURE")
    \o ValidateObject(source.functions, target.functions, "FUNCTION")
    \o ValidateObject(source.triggers, target.triggers, "TRIGGER")

-----------------------------------------------------------------------------
(* RowCountValidator.validate *)

\* a status that tolerates a difference of one row
RowCountStatusTolerant(source_count, target_count) ==
    IF source_count - target_count \in {-1, 0, 1} THEN "MATCH" ELSE "MISMATCH"

\* status = "MATCH" if source_count == target_count else "MISMATCH"
RowCountStatus(source_count, target_count) ==
    IF source_count = target_count THEN "MATCH" ELSE "MISMATCH"

\* RowCountValidator.validate, given what the two get_row_count calls returned
RowCountValidate(source_count, target_count, schema, table) ==
    [schema |-> schema, table |-> table, check_type |-> "ROW_COUNT",
     source_value |-> source_count, target_value |-> target_count,
     status |-> RowCountStatus(source_count, target_count)]

-----------------------------------------------------------------------------
(* Bounds and the snapshots a provider may return *)

MaxCols == 2

MaxConstraints == 2

MaxRoutines == 2

MaxRowCount == 2

MaxTables == 2

ListsUpTo(S, n) == UNION {[1..k -> S] : k \in 0..n}

SchemaNames == { <<"p","u","b","l","i","c">>, <<"P","U","B","L","I","C">>,
                 <<"s","t","a","g","i","n","g">>, <<"a","r","c","h","i","v","e">> }

TableNames == { <<"o","r","d","e","r","s">>, <<"O","R","D","E","R","S">> }

ColumnNames == { <<"i","d">>, <<"I","D">>, <<"n","o","t","e">> }

DataTypes == {"INT", "VARCHAR"}

OptInts == {None, Some(0), Some(10)}

Column(name, data_type, length, precision, scale) ==
    [column_name |-> name, data_type |-> data_type, length |-> length,
     precision |-> precision, scale |-> scale]

\* every column over the names, types and attribute values above
AllColumns ==
    {Column(n, t, l, p, s) :
        n \in ColumnNames, t \in DataTypes, l \in OptInts, p \in OptInts, s \in OptInts}

\* an integer column and a character column under every name
SampleColumns ==
    {Column(n, "INT", None, Some(10), Some(0)) : n \in ColumnNames}
    \cup {Column(n, "VARCHAR", Some(10), None, None) : n \in ColumnNames}

\* what get_columns may return: up to MaxCols sample columns in any order,
\* repeated names included, or any single column
ColumnSnapshots == ListsUpTo(SampleColumns, MaxCols) \cup {<<c>> : c \in AllColumns}

ConstraintNames == { <<"p","k">>, <<"P","K">>, <<"u","q">> }

\* Oracle's codes for a primary key and a unique constraint
ConstraintTypes == {"P", "U"}

Constraint(name, type) == [constraint_name |-> name, constraint_type |-> type]

\* what get_constraints may return
ConstraintSnapshots ==
    ListsUpTo({Constraint(n, t) : n \in ConstraintNames, t \in ConstraintTypes},
              MaxConstraints)

RoutineNames == { <<"c","a","l","c">>, <<"t","r","g","_","a">>, <<"T","R","G","_","A">> }

\* what get_procedures, get_functions and get_triggers may return on one
\* database: three lists of names, MaxRoutines names at most in all
RoutineSnapshots ==
    UNION { [procedures : [1..a -> RoutineNames],
             functions  : [1..b -> RoutineNames],
             triggers   : [1..c -> RoutineNames]] :
            <<a, b, c>> \in {t \in (0..MaxRoutines) \X (0..MaxRoutines) \X (0..MaxRoutines) :
                               t[1] + t[2] + t[3] <= MaxRoutines} }

\* the (schema, table) arguments a validator is called with on its own; they
\* stand in fetched.schema and fetched.table before the call
ValidatedTables ==
    { << <<"p","u","b","l","i","c">>, <<"o","r","d","e","r","s">> >>,
      << <<"s","t","a","g","i","n","g">>, <<"O","R","D","E","R","S">> >> }

RowCounts == 0..MaxRowCount

-----------------------------------------------------------------------------
(* One validator call: the provider calls it makes, what it returns or raises *)

Call(side, op, schema, table) ==
    [side |-> side, op |-> op, schema |-> schema, table |-> table]

NoFetch ==
    [validator |-> "none", schema |-> << >>, table |-> << >>,
     source |-> None, target |-> None]

Fetch(validator, schema, table, source, target) ==
    [validator |-> validator, schema |-> schema, table |-> table,
     source |-> source, target |-> target]

\* the ways a provider query ends: it raises (None) or it returns a value of S
Returns(S) == {None} \cup {Some(x) : x \in S}

\* the ways the second query of a validator ends: it is not issued when the
\* first one raised
ReturnsAfter(first, S) == IF first = None THEN {None} ELSE Returns(S)

\* A table-level validator: source.<op>(schema, table), then
\* target.<op>(schema, table), then the comparison.  A query that raises ends
\* the call: the exception propagates to the caller.
TableCalls(op, schema, table, source, target) ==
    IF source = None
    THEN << Call("source", op, schema, table) >>
    ELSE << Call("source", op, schema, table), Call("target", op, schema, table) >>

\* the exception a validator call leaves: the last query made, when one raised
Raised(made, source, target) ==
    IF source = None \/ target = None THEN Some(made[Len(made)]) ELSE error

\* row_count_results.append(RowCountValidator.validate(source, target, schema, table))
RowCountCall(schema, table, source_count, target_count) ==
    LET made == TableCalls("get_row_count", schema, table, source_count, target_count)
    IN  /\ calls' = calls \o made
        /\ fetched' = Fetch("row_count", schema, table, source_count, target_count)
        /\ error' = Raised(made, source_count, target_count)
        /\ row_count_results' =
              IF source_count # None /\ target_count # None
              THEN Append(row_count_results,
                          RowCountValidate(source_count[1], target_count[1],
                                           schema, table))
              ELSE row_count_results

\* column_results.extend(ColumnValidator.validate(source, target, schema, table))
ColumnCall(schema, table, source_columns, target_columns) ==
    LET made == TableCalls("get_columns", schema, table, source_columns, target_columns)
    IN  /\ calls' = calls \o made
        /\ fetched' = Fetch("column", schema, table, source_columns, target_columns)
        /\ error' = Raised(made, source_columns, target_columns)
        /\ column_results' =
              IF source_columns # None /\ target_columns # None
              THEN column_results
                   \o ColumnValidate(source_columns[1], target_columns[1],
                                     schema, table)
              ELSE column_results

\* constraint_results.extend(ConstraintValidator.validate(source, target, schema, table))
ConstraintCall(schema, table, source_constraints, target_constraints) ==
    LET made == TableCalls("get_constraints", schema, table,
                           source_constraints, target_constraints)
    IN  /\ calls' = calls \o made
        /\ fetched' = Fetch("constraint", schema, table,
                            source_constraints, target_constraints)
        /\ error' = Raised(made, source_constraints, target_constraints)
        /\ constraint_results' =
              IF source_constraints # None /\ target_constraints # None
              THEN constraint_results
                   \o ConstraintValidate(source_constraints[1], target_constraints[1],
                                         schema, table)
              ELSE constraint_results

\* RoutineValidator.validate issues six queries: procedures, functions and
\* triggers, each on the source and then on the target.
RoutineQueries ==
    << Call("source", "get_procedures", << >>, << >>),
       Call("target", "get_procedures", << >>, << >>),
       Call("source", "get_functions", << >>, << >>),
       Call("target", "get_functions", << >>, << >>),
       Call("source", "get_triggers", << >>, << >>),
       Call("target", "get_triggers", << >>, << >>) >>

\* routine_results.extend(RoutineValidator.validate(source, target)), every
\* query returning: source and target are the three lists of each side
RoutineCall(source, target) ==
    /\ calls' = calls \o RoutineQueries
    /\ fetched' = Fetch("routine", << >>, << >>, Some(source), Some(target))
    /\ error' = error
    /\ routine_results' = routine_results \o RoutineValidate(source, target)

\* RoutineValidator.validate when its query number raises_at raises: the
\* queries before it were made, nothing is returned
RoutineCallRaises(raises_at) ==
    /\ calls' = calls \o SubSeq(RoutineQueries, 1, raises_at)
    /\ fetched' = Fetch("routine", << >>, << >>, None, None)
    /\ error' = Some(RoutineQueries[raises_at])
    /\ routine_results' = routine_results

-----------------------------------------------------------------------------
(* The validators called on their own, on any snapshots *)

InitValidators ==
    /\ pc = "call"
    /\ db = [side \in Sides |-> {}]
    /\ conn = [side \in Sides |-> "open"]
    /\ closes = [side \in Sides |-> 0]
    /\ schemas = << >>
    /\ tables = << >>
    /\ row_count_results = << >>
    /\ column_results = << >>
    /\ constraint_results = << >>
    /\ routine_results = << >>
    /\ fetched \in {Fetch("none", st[1], st[2], None, None) : st \in ValidatedTables}
    /\ calls = << >>
    /\ report = None
    /\ error = None

ValidateRowCount ==
    /\ pc = "call"
    /\ \E source_count \in Returns(RowCounts) :
          \E target_count \in ReturnsAfter(source_count, RowCounts) :
             RowCountCall(fetched.schema, fetched.table, source_count, target_count)
    /\ pc' = IF error' = None THEN "returned" ELSE "raised"
    /\ UNCHANGED <<db, conn, closes, schemas, tables, column_results, constraint_results,
                   routine_results, report>>

ValidateColumns ==
    /\ pc = "call"
    /\ \E source_columns \in Returns(ColumnSnapshots) :
          \E target_columns \in ReturnsAfter(source_columns, ColumnSnapshots) :
             ColumnCall(fetched.schema, fetched.table, source_columns, target_columns)
    /\ pc' = IF error' = None THEN "returned" ELSE "raised"
    /\ UNCHANGED <<db, conn, closes, schemas, tables, row_count_results, constraint_results,
                   routine_results, report>>

ValidateConstraints ==
    /\ pc = "call"
    /\ \E source_constraints \in Returns(ConstraintSnapshots) :
          \E target_constraints \in ReturnsAfter(source_constraints, ConstraintSnapshots) :
             ConstraintCall(fetched.schema, fetched.table,
                            source_constraints, target_constraints)
    /\ pc' = IF error' = None THEN "returned" ELSE "raised"
    /\ UNCHANGED <<db, conn, closes, schemas, tables, row_count_results, column_results,
                   routine_results, report>>

ValidateRoutines ==
    /\ pc = "call"
    /\ \/ \E source \in RoutineSnapshots, target \in RoutineSnapshots :
             RoutineCall(source, target)
       \/ \E raises_at \in DOMAIN RoutineQueries :
             RoutineCallRaises(raises_at)
    /\ pc' = IF error' = None THEN "returned" ELSE "raised"
    /\ UNCHANGED <<db, conn, closes, schemas, tables, row_count_results, column_results,
                   constraint_results, report>>

NextValidators ==
    \/ ValidateRowCount
    \/ ValidateConstraints
    \/ ValidateRoutines
    \/ ValidateColumns

SpecValidators == InitValidators /\ [][NextValidators]_vars

-----------------------------------------------------------------------------
(* The two databases main() runs against *)

\* the databases one side may hold: up to MaxTables (schema, table) entries
Databases == {d \in SUBSET (SchemaNames \X TableNames) : Cardinality(d) <= MaxTables}

\* list_schemas(): one entry per schema, alphabetically ordered
StoredSchemas(side) == Sorted({e[1] : e \in db[side]})

\* list_tables(schema): the tables of the schema, alphabetically ordered
StoredTables(side, schema) == Sorted({e[2] : e \in {x \in db[side] : x[1] = schema}})

\* get_row_count(schema, table): the target lost two rows of every ORDERS table
StoredRowCount(side, schema, table) ==
    IF side = "target" /\ table = <<"O","R","D","E","R","S">> THEN 998 ELSE 1000

\* get_columns(schema, table): the target has one column more
StoredColumns(side, schema, table) ==
    IF side = "source"
    THEN << Column(<<"i","d">>, "INT", None, Some(10), Some(0)) >>
    ELSE << Column(<<"I","D">>, "INT", None, Some(10), Some(0)),
            Column(<<"n","o","t","e">>, "VARCHAR", Some(10), None, None) >>

\* get_constraints(schema, table): the source has one constraint more
StoredConstraints(side, schema, table) ==
    IF side = "source"
    THEN << Constraint(<<"p","k">>, "P"), Constraint(<<"u","q">>, "U") >>
    ELSE << Constraint(<<"P","K">>, "P") >>

\* get_procedures(), get_functions(), get_triggers(): the source has a trigger
StoredRoutines(side) ==
    [procedures |-> << <<"c","a","l","c">> >>,
     functions  |-> << >>,
     triggers   |-> IF side = "source" THEN << <<"T","R","G","_","A">> >> ELSE << >>]

-----------------------------------------------------------------------------
(* main() *)

Init ==
    /\ pc = "connect_source"
    /\ db \in [Sides -> Databases]
    /\ conn = [side \in Sides |-> "none"]
    /\ closes = [side \in Sides |-> 0]
    /\ schemas = << >>
    /\ tables = << >>
    /\ row_count_results = << >>
    /\ column_results = << >>
    /\ constraint_results = << >>
    /\ routine_results = << >>
    /\ fetched = NoFetch
    /\ calls = << >>
    /\ report = None
    /\ error = None

\* a main() that catches the exception of a provider call and carries on
AfterCaught(next) == next

\* where main() continues after a provider call: nowhere once it raised
After(next) == IF error' = None THEN next ELSE "aborted"

\* source.connect() / target.connect(): sets self.connection, or raises
Connect(side, raises) ==
    /\ calls' = Append(calls, Call(side, "connect", << >>, << >>))
    /\ conn' = IF raises THEN conn ELSE [conn EXCEPT ![side] = "open"]
    /\ error' = IF raises THEN Some(Call(side, "connect", << >>, << >>)) ELSE error

ConnectSource ==
    /\ pc = "connect_source"
    /\ \E raises \in BOOLEAN : Connect("source", raises)
    /\ pc' = After("connect_target")
    /\ UNCHANGED <<db, closes, schemas, tables, row_count_results, column_results,
                   constraint_results, routine_results, fetched, report>>

ConnectTarget ==
    /\ pc = "connect_target"
    /\ \E raises \in BOOLEAN : Connect("target", raises)
    /\ pc' = After("list_schemas")
    /\ UNCHANGED <<db, closes, schemas, tables, row_count_results, column_results,
                   constraint_results, routine_results, fetched, report>>

\* the union of the two lists in place of their intersection
CommonEither(source_list, target_list) ==
    Sorted(Range(source_list) \cup Range(target_list))

\* sorted(set(source_list) & set(target_list))
Common(source_list, target_list) == Sorted(Range(source_list) \cap Range(target_list))

\* a main() that goes from the last schema straight to the report
SchemaLoopWithoutRoutines(left) == IF left = << >> THEN "write" ELSE "list_tables"

\* the position of "for schema in common_schemas" with these schemas left
SchemaLoop(left) == IF left = << >> THEN "routine" ELSE "list_tables"

\* source_schemas, target_schemas, common_schemas
ListSchemas ==
    /\ pc = "list_schemas"
    /\ \E source \in {None, Some(StoredSchemas("source"))} :
          \E target \in ReturnsAfter(source, {StoredSchemas("target")}) :
             LET made == TableCalls("list_schemas", << >>, << >>, source, target)
             IN  /\ calls' = calls \o made
                 /\ error' = Raised(made, source, target)
                 /\ schemas' = IF source # None /\ target # None
                               THEN Common(source[1], target[1])
                               ELSE schemas
    /\ pc' = After(SchemaLoop(schemas'))
    /\ UNCHANGED <<db, conn, closes, tables, row_count_results, column_results,
                   constraint_results, routine_results, fetched, report>>

\* source_tables, target_tables, common_tables for the schema being visited;
\* a schema without a common table is done at once
ListTables ==
    /\ pc = "list_tables"
    /\ LET schema == Head(schemas)
       IN  \E source \in {None, Some(StoredTables("source", schema))} :
              \E target \in ReturnsAfter(source, {StoredTables("target", schema)}) :
                 LET made == TableCalls("list_tables", schema, << >>, source, target)
                     common_tables == IF source # None /\ target # None
                                      THEN Common(source[1], target[1])
                                      ELSE << >>
                 IN  /\ calls' = calls \o made
                     /\ error' = Raised(made, source, target)
                     /\ tables' = common_tables
                     /\ schemas' = IF error' = None /\ common_tables = << >>
                                   THEN Tail(schemas) ELSE schemas
                     /\ pc' = After(IF common_tables = << >>
                                    THEN SchemaLoop(Tail(schemas))
                                    ELSE "row_count")
    /\ UNCHANGED <<db, conn, closes, row_count_results, column_results,
                   constraint_results, routine_results, fetched, report>>

RowCountStep ==
    /\ pc = "row_count"
    /\ LET schema == Head(schemas)
           table  == Head(tables)
       IN  \E source \in {None, Some(StoredRowCount("source", schema, table))} :
              \E target \in ReturnsAfter(source, {StoredRowCount("target", schema, table)}) :
                 RowCountCall(schema, table, source, target)
    /\ pc' = After("column")
    /\ UNCHANGED <<db, conn, closes, schemas, tables, column_results, constraint_results,
                   routine_results, report>>

ColumnStep ==
    /\ pc = "column"
    /\ LET schema == Head(schemas)
           table  == Head(tables)
       IN  \E source \in {None, Some(StoredColumns("source", schema, table))} :
              \E target \in ReturnsAfter(source, {StoredColumns("target", schema, table)}) :
                 ColumnCall(schema, table, source, target)
    /\ pc' = After("constraint")
    /\ UNCHANGED <<db, conn, closes, schemas, tables, row_count_results, constraint_results,
                   routine_results, report>>

\* the last validator of a table: the table loop moves on, and the schema
\* loop with it after the last table
ConstraintStep ==
    /\ pc = "constraint"
    /\ LET schema == Head(schemas)
           table  == Head(tables)
       IN  \E source \in {None, Some(StoredConstraints("source", schema, table))} :
              \E target \in ReturnsAfter(source, {StoredConstraints("target", schema, table)}) :
                 ConstraintCall(schema, table, source, target)
    /\ IF error' # None
       THEN /\ pc' = "aborted"
            /\ UNCHANGED <<schemas, tables>>
       ELSE /\ tables' = Tail(tables)
            /\ schemas' = IF Tail(tables) = << >> THEN Tail(schemas) ELSE schemas
            /\ pc' = IF Tail(tables) # << >> THEN "row_count"
                     ELSE SchemaLoop(Tail(schemas))
    /\ UNCHANGED <<db, conn, closes, row_count_results, column_results,
                   routine_results, report>>

RoutineStep ==
    /\ pc = "routine"
    /\ \/ RoutineCall(StoredRoutines("source"), StoredRoutines("target"))
       \/ \E raises_at \in DOMAIN RoutineQueries : RoutineCallRaises(raises_at)
    /\ pc' = After("write")
    /\ UNCHANGED <<db, conn, closes, schemas, tables, row_count_results, column_results,
                   constraint_results, report>>

\* reporter.write(row_counts=..., column_results=..., constraint_results=...,
\* routine_results=...): the workbook is written, or the write raises
Write ==
    /\ pc = "write"
    /\ \E raises \in BOOLEAN :
          /\ report' = IF raises THEN report
                       ELSE Some([row_counts         |-> row_count_results,
                                  column_results     |-> column_results,
                                  constraint_results |-> constraint_results,
                                  routine_results    |-> routine_results])
          /\ error' = IF raises THEN Some(Call("reporter", "write", << >>, << >>))
                      ELSE error
    /\ calls' = Append(calls, Call("reporter", "write", << >>, << >>))
    /\ pc' = After("close_source")
    /\ UNCHANGED <<db, conn, closes, schemas, tables, row_count_results, column_results,
                   constraint_results, routine_results, fetched>>

\* a close() without the test of self.connection
CloseUnguarded(side) ==
    /\ calls' = Append(calls, Call(side, "close", << >>, << >>))
    /\ conn' = [conn EXCEPT ![side] = "closed"]
    /\ closes' = [closes EXCEPT ![side] = closes[side] + 1]

\* close(): "if self.connection:" closes the driver's connection and forgets it
Close(side) ==
    /\ calls' = Append(calls, Call(side, "close", << >>, << >>))
    /\ conn' = IF conn[side] = "open" THEN [conn EXCEPT ![side] = "closed"] ELSE conn
    /\ closes' = IF conn[side] = "open"
                 THEN [closes EXCEPT ![side] = closes[side] + 1] ELSE closes

CloseSource ==
    /\ pc = "close_source"
    /\ Close("source")
    /\ pc' = "close_target"
    /\ UNCHANGED <<db, schemas, tables, row_count_results, column_results,
                   constraint_results, routine_results, fetched, report, error>>

CloseTarget ==
    /\ pc = "close_target"
    /\ Close("target")
    /\ pc' = "done"
    /\ UNCHANGED <<db, schemas, tables, row_count_results, column_results,
                   constraint_results, routine_results, fetched, report, error>>

Next ==
    \/ ConnectSource
    \/ ConnectTarget
    \/ ListSchemas
    \/ ListTables
    \/ RowCountStep
    \/ ColumnStep
    \/ ConstraintStep
    \/ RoutineStep
    \/ Write
    \/ CloseSource
    \/ CloseTarget

Spec == Init /\ [][Next]_vars

-----------------------------------------------------------------------------
(* The connectors called on their own, in any order: the source is an        *)
(* OracleConnector and the target a RedshiftConnector.  Here pc is the        *)
(* outcome of the last call, error the last exception raised, and fetched     *)
(* holds what the last query returned on the side it was made on.            *)

MaxCalls == 3

\* ConnectorFactory.create(db_type, config) for the source and the target
DbType == [source |-> "oracle", target |-> "redshift"]

QueryOps == {"list_schemas", "list_tables", "get_row_count", "get_columns",
             "get_constraints", "get_procedures", "get_functions", "get_triggers"}

\* a RedshiftConnector whose get_procedures is a stub as well
UsesConnectionStubbed(db_type, op) ==
    ~(db_type = "redshift" /\ op \in {"get_triggers", "get_procedures"})

\* the query opens a cursor on self.connection; RedshiftConnector.get_triggers
\* returns [] without one
UsesConnection(db_type, op) == ~(db_type = "redshift" /\ op = "get_triggers")

\* the rows all_constraints (Oracle) and information_schema.table_constraints
\* (Redshift) hold for a table with a primary key, a foreign key, a unique
\* constraint and a NOT NULL column
TableConstraintRows(db_type) ==
    IF db_type = "oracle"
    THEN << Constraint(<<"p","k">>, "P"), Constraint(<<"f","k">>, "R"),
            Constraint(<<"u","q">>, "U"), Constraint(<<"n","n">>, "C") >>
    ELSE << Constraint(<<"p","k">>, "PRIMARY KEY"), Constraint(<<"f","k">>, "FOREIGN KEY"),
            Constraint(<<"u","q">>, "UNIQUE"), Constraint(<<"n","n">>, "CHECK") >>

\* get_constraints: Oracle's query has "AND constraint_type IN ('P', 'R', 'U')",
\* Redshift's query selects every row of the table
GetConstraints(db_type) ==
    IF db_type = "oracle"
    THEN SelectSeq(TableConstraintRows(db_type),
                   LAMBDA c : c.constraint_type \in {"P", "R", "U"})
    ELSE TableConstraintRows(db_type)

\* the arguments a query is called with: those of the first table
QueryArgs(op) ==
    LET st == CHOOSE t \in ValidatedTables : t[1] = <<"p","u","b","l","i","c">>
    IN  IF op \in {"get_row_count", "get_columns", "get_constraints"} THEN st
        ELSE IF op = "list_tables" THEN <<st[1], << >> >>
        ELSE << << >>, << >> >>

\* what a query returns when it does not raise
QueryResult(side, op, schema, table) ==
    IF op = "list_schemas" THEN StoredSchemas(side)
    ELSE IF op = "list_tables" THEN StoredTables(side, schema)
    ELSE IF op = "get_row_count" THEN StoredRowCount(side, schema, table)
    ELSE IF op = "get_columns" THEN StoredColumns(side, schema, table)
    ELSE IF op = "get_constraints" THEN GetConstraints(DbType[side])
    ELSE IF op = "get_procedures" THEN StoredRoutines(side).procedures
    ELSE IF op = "get_functions" THEN StoredRoutines(side).functions
    ELSE IF UsesConnection(DbType[side], op) THEN StoredRoutines(side).triggers
    ELSE << >>

\* one query on one connector: self.connection.cursor() raises when
\* self.connection is None, and the database may fail the query (raises)
Query(side, op, raises) ==
    LET args  == QueryArgs(op)
        query == Call(side, op, args[1], args[2])
        fails == UsesConnection(DbType[side], op) /\ (conn[side] # "open" \/ raises)
    IN  /\ calls' = Append(calls, query)
        /\ error' = IF fails THEN Some(query) ELSE error
        /\ fetched' =
              [Fetch(op, args[1], args[2], None, None) EXCEPT
                  ![side] = IF fails THEN None
                            ELSE Some(QueryResult(side, op, args[1], args[2]))]
        /\ pc' = IF fails THEN "raised" ELSE "returned"

InitConnectors ==
    /\ pc = "created"
    /\ db = [side \in Sides |-> ValidatedTables]
    /\ conn = [side \in Sides |-> "none"]
    /\ closes = [side \in Sides |-> 0]
    /\ schemas = << >>
    /\ tables = << >>
    /\ row_count_results = << >>
    /\ column_results = << >>
    /\ constraint_results = << >>
    /\ routine_results = << >>
    /\ fetched = NoFetch
    /\ calls = << >>
    /\ report = None
    /\ error = None

ConnectorConnect ==
    /\ Len(calls) < MaxCalls
    /\ \E side \in Sides, raises \in BOOLEAN :
          /\ Connect(side, raises)
          /\ pc' = IF raises THEN "raised" ELSE "returned"
    /\ UNCHANGED <<db, closes, schemas, tables, row_count_results, column_results,
                   constraint_results, routine_results, fetched, report>>

ConnectorClose ==
    /\ Len(calls) < MaxCalls
    /\ \E side \in Sides : Close(side)
    /\ pc' = "returned"
    /\ UNCHANGED <<db, schemas, tables, row_count_results, column_results,
                   constraint_results, routine_results, fetched, report, error>>

ConnectorQuery ==
    /\ Len(calls) < MaxCalls
    /\ \E side \in Sides, op \in QueryOps, raises \in BOOLEAN : Query(side, op, raises)
    /\ UNCHANGED <<db, conn, closes, schemas, tables, row_count_results,
                   column_results, constraint_results, routine_results, report>>

NextConnectors ==
    \/ ConnectorConnect
    \/ ConnectorClose
    \/ ConnectorQuery

SpecConnectors == InitConnectors /\ [][NextConnectors]_vars

-----------------------------------------------------------------------------
(* Vocabulary of the properties.  Names are compared letter by letter here,  *)
(* without str.upper(), so that the properties say what the validators      *)
(* should compute and not how.                                              *)

\* a lower-case letter with its upper-case letter
LetterPairs == {{LowerCase[i], UpperCase[i]} : i \in DOMAIN LowerCase}

SameLetter(c, d) == c = d \/ {c, d} \in LetterPairs

\* two names that differ at most in letter case
SameName(a, b) == Len(a) = Len(b) /\ \A i \in DOMAIN a : SameLetter(a[i], b[i])

LowerLetters == {LowerCase[i] : i \in DOMAIN LowerCase}

\* a name as the validators report it: no lower-case letter left
IsUpperCased(name) == \A i \in DOMAIN name : name[i] \notin LowerLetters

\* a validator call of this kind has returned
ReturnedFrom(validator) == pc = "returned" /\ fetched.validator = validator

HasColumn(columns, name) ==
    \E i \in DOMAIN columns : SameName(columns[i].column_name, name)

\* the positions of the column records reported under a name
ColumnRecordsOf(name) ==
    {i \in DOMAIN column_results : SameName(column_results[i].column, name)}

ExistenceValue(present) == IF present THEN "PRESENT" ELSE "MISSING"

-----------------------------------------------------------------------------
\* C1: ColumnValidator.validate reports a column name held by exactly one of the
\* two snapshots in exactly one record: under the upper-cased name, check type
\* COLUMN_EXISTENCE, status MISMATCH, "PRESENT" on the side that has the column
\* and "MISSING" on the other; no attribute record is reported for that name.
C1_OneSidedColumn ==
    ReturnedFrom("column") =>
        \A name \in ColumnNames :
            LET in_source == HasColumn(fetched.source[1], name)
                in_target == HasColumn(fetched.target[1], name)
                recs      == ColumnRecordsOf(name)
            IN  in_source # in_target =>
                    /\ Cardinality(recs) = 1
                    /\ \A i \in recs :
                          /\ IsUpperCased(column_results[i].column)
                          /\ column_results[i].check_type = "COLUMN_EXISTENCE"
                          /\ column_results[i].status = "MISMATCH"
                          /\ column_results[i].source_value = ExistenceValue(in_source)
                          /\ column_results[i].target_value = ExistenceValue(in_target)

\* one column only on the source and another only on the target
C1_Witness ==
    /\ ReturnedFrom("column")
    /\ \E n, m \in ColumnNames :
          /\ HasColumn(fetched.source[1], n) /\ ~HasColumn(fetched.target[1], n)
          /\ HasColumn(fetched.target[1], m) /\ ~HasColumn(fetched.source[1], m)
          /\ Len(column_results) = 2

RECURSIVE Ascending(_)
\* the numbers of a set in ascending order
Ascending(S) ==
    IF S = {} THEN << >>
    ELSE LET m == CHOOSE x \in S : \A y \in S : x <= y
         IN  <<m>> \o Ascending(S \ {m})

\* the columns a snapshot lists under a name
ColumnsNamed(columns, name) ==
    {columns[i] : i \in {j \in DOMAIN columns : SameName(columns[j].column_name, name)}}

MatchIff(equal) == IF equal THEN "MATCH" ELSE "MISMATCH"

\* the four attribute records of a source column s and a target column t
AttributeRecordsAt(at, s, t) ==
    /\ Len(at) = 4
    /\ column_results[at[1]].check_type = "DATA_TYPE"
    /\ column_results[at[1]].source_value = s.data_type
    /\ column_results[at[1]].target_value = t.data_type
    /\ column_results[at[1]].status = MatchIff(s.data_type = t.data_type)
    /\ column_results[at[2]].check_type = "LENGTH"
    /\ column_results[at[2]].source_value = s.length
    /\ column_results[at[2]].target_value = t.length
    /\ column_results[at[2]].status = MatchIff(s.length = t.length)
    /\ column_results[at[3]].check_type = "PRECISION"
    /\ column_results[at[3]].source_value = s.precision
    /\ column_results[at[3]].target_value = t.precision
    /\ column_results[at[3]].status = MatchIff(s.precision = t.precision)
    /\ column_results[at[4]].check_type = "SCALE"
    /\ column_results[at[4]].source_value = s.scale
    /\ column_results[at[4]].target_value = t.scale
    /\ column_results[at[4]].status = MatchIff(s.scale = t.scale)

\* C2: ColumnValidator.validate reports a column name held by both snapshots in
\* exactly four records, DATA_TYPE, LENGTH, PRECISION, SCALE in that order, each
\* with the field value of a source column and of a target column of that name
\* and with status MATCH exactly when the two values are equal (None equals
\* only None).
C2_TwoSidedColumn ==
    ReturnedFrom("column") =>
        \A name \in ColumnNames :
            (HasColumn(fetched.source[1], name) /\ HasColumn(fetched.target[1], name)) =>
                \E s \in ColumnsNamed(fetched.source[1], name),
                   t \in ColumnsNamed(fetched.target[1], name) :
                    AttributeRecordsAt(Ascending(ColumnRecordsOf(name)), s, t)

\* a column on both sides of which one attribute is None on one side only,
\* one is None on both, and one has two different values
C2_Witness ==
    /\ ReturnedFrom("column")
    /\ Len(column_results) = 4
    /\ column_results[1].status = "MISMATCH"
    /\ column_results[2].source_value = None /\ column_results[2].target_value # None
    /\ column_results[3].source_value = None /\ column_results[3].target_value = None
    /\ column_results[3].status = "MATCH"
    /\ column_results[4].source_value \notin {None, column_results[4].target_value}
    /\ column_results[4].target_value # None

-----------------------------------------------------------------------------
\* C8: a source column and a target column whose names differ only in letter
\* case are one column to ColumnValidator.validate: no COLUMN_EXISTENCE record
\* is reported under that name, and its four attribute records are.
C8_CaseVariation ==
    ReturnedFrom("column") =>
        \A i \in DOMAIN fetched.source[1], j \in DOMAIN fetched.target[1] :
            LET s == fetched.source[1][i].column_name
                t == fetched.target[1][j].column_name
                recs == ColumnRecordsOf(s)
            IN  (s # t /\ SameName(s, t)) =>
                    /\ \A r \in recs : column_results[r].check_type # "COLUMN_EXISTENCE"
                    /\ {column_results[r].check_type : r \in recs}
                          = {"DATA_TYPE", "LENGTH", "PRECISION", "SCALE"}
                    /\ Cardinality(recs) = 4
                    /\ \A r \in recs :
                          column_results[r].status =
                             MatchIff(column_results[r].source_value
                                         = column_results[r].target_value)

\* "id" on the source, "ID" on the target, compared attribute by attribute
C8_Witness ==
    /\ ReturnedFrom("column")
    /\ fetched.source[1] = << Column(<<"i","d">>, "INT", None, Some(10), Some(0)) >>
    /\ fetched.target[1] = << Column(<<"I","D">>, "INT", None, Some(10), Some(0)) >>
    /\ Len(column_results) = 4
    /\ \A r \in DOMAIN column_results : column_results[r].status = "MATCH"

-----------------------------------------------------------------------------
HasConstraint(constraints, name) ==
    \E i \in DOMAIN constraints : SameName(constraints[i].constraint_name, name)

\* the types a snapshot reports for a constraint name
TypesNamed(constraints, name) ==
    {constraints[i].constraint_type :
        i \in {j \in DOMAIN constraints : SameName(constraints[j].constraint_name, name)}}

\* the positions of the constraint records reported under a name
ConstraintRecordsOf(name) ==
    {i \in DOMAIN constraint_results : SameName(constraint_results[i].constraint, name)}

-----------------------------------------------------------------------------
-----------------------------------------------------------------------------
HasObject(objects, name) == \E i \in DOMAIN objects : SameName(objects[i], name)

\* the lists the two sides returned for one object type
ListsOf(object_type) ==
    IF object_type = "PROCEDURE"
    THEN <<fetched.source[1].procedures, fetched.target[1].procedures>>
    ELSE IF object_type = "FUNCTION"
    THEN <<fetched.source[1].functions, fetched.target[1].functions>>
    ELSE <<fetched.source[1].triggers, fetched.target[1].triggers>>

\* the positions of the routine records of one object type under a name
RoutineRecordsOf(object_type, name) ==
    {i \in DOMAIN routine_results :
        /\ routine_results[i].object_type = object_type
        /\ SameName(routine_results[i].object_name, name)}

\* C5: RoutineValidator.validate compares procedures, functions and triggers
\* apart.  Within an object type, a name that either side lists yields exactly
\* one record under the upper-cased name: MATCH with "PRESENT" twice when both
\* sides list it, else MISMATCH with "PRESENT" on the side that lists it and
\* "MISSING" on the other; a name neither side lists under that type yields no
\* record of that type, whatever the other types hold.
C5_RoutinePartitions ==
    ReturnedFrom("routine") =>
        /\ \A i \in DOMAIN routine_results :
              routine_results[i].object_type \in Range(ObjectTypes)
        /\ \A t \in DOMAIN ObjectTypes, name \in RoutineNames :
              LET in_source == HasObject(ListsOf(ObjectTypes[t])[1], name)
                  in_target == HasObject(ListsOf(ObjectTypes[t])[2], name)
                  recs      == RoutineRecordsOf(ObjectTypes[t], name)
              IN  IF in_source \/ in_target
                  THEN /\ Cardinality(recs) = 1
                       /\ \A i \in recs :
                             /\ IsUpperCased(routine_results[i].object_name)
                             /\ routine_results[i].status = MatchIff(in_source /\ in_target)
                             /\ routine_results[i].source_value = ExistenceValue(in_source)
                             /\ routine_results[i].target_value = ExistenceValue(in_target)
                  ELSE recs = {}

\* a trigger only on the source, beside a procedure of the same name on both
\* sides: one TRIGGER MISMATCH, and the PROCEDURE record is a MATCH
C5_Witness ==
    /\ ReturnedFrom("routine")
    /\ fetched.source[1].triggers = << <<"T","R","G","_","A">> >>
    /\ fetched.target[1].triggers = << >>
    /\ fetched.source[1].procedures = << <<"t","r","g","_","a">> >>
    /\ fetched.target[1].procedures = << <<"T","R","G","_","A">> >>
    /\ Len(routine_results) = 2
    /\ routine_results[1].object_type = "PROCEDURE"
    /\ routine_results[1].status = "MATCH"
    /\ routine_results[2].object_type = "TRIGGER"
    /\ routine_results[2].status = "MISMATCH"
    /\ routine_results[2].source_value = "PRESENT"
    /\ routine_results[2].target_value = "MISSING"

-----------------------------------------------------------------------------
\* C6: RowCountValidator.validate issues one get_row_count(schema, table) to the
\* source and one to the target, and returns one record: check type ROW_COUNT,
\* the two counts as source_value and target_value, status MATCH exactly when
\* the counts are equal.
C6_RowCount ==
    ReturnedFrom("row_count") =>
        /\ calls = << Call("source", "get_row_count", fetched.schema, fetched.table),
                      Call("target", "get_row_count", fetched.schema, fetched.table) >>
        /\ Len(row_count_results) = 1
        /\ row_count_results[1].schema = fetched.schema
        /\ row_count_results[1].table = fetched.table
        /\ row_count_results[1].check_type = "ROW_COUNT"
        /\ row_count_results[1].source_value = fetched.source[1]
        /\ row_count_results[1].target_value = fetched.target[1]
        /\ row_count_results[1].status = MatchIff(fetched.source[1] = fetched.target[1])

\* two counts one row apart: a MISMATCH
C6_Witness ==
    /\ ReturnedFrom("row_count")
    /\ fetched.source[1] = fetched.target[1] + 1
    /\ Len(row_count_results) = 1
    /\ row_count_results[1].status = "MISMATCH"

-----------------------------------------------------------------------------
\* C7: when the source and the target return the same snapshot, every record a
\* validator emits has status MATCH: the column and constraint validators emit
\* no existence record, and the routine validator's values are all "PRESENT".
C7_Identity ==
    (pc = "returned" /\ fetched.source = fetched.target) =>
        /\ \A i \in DOMAIN row_count_results : row_count_results[i].status = "MATCH"
        /\ \A i \in DOMAIN column_results :
              /\ column_results[i].status = "MATCH"
              /\ column_results[i].check_type # "COLUMN_EXISTENCE"
        /\ \A i \in DOMAIN constraint_results :
              /\ constraint_results[i].status = "MATCH"
              /\ constraint_results[i].check_type # "CONSTRAINT_EXISTENCE"
        /\ \A i \in DOMAIN routine_results :
              /\ routine_results[i].status = "MATCH"
              /\ routine_results[i].source_value = "PRESENT"
              /\ routine_results[i].target_value = "PRESENT"

\* the same two columns on both sides: eight records, all MATCH
C7_Witness ==
    /\ ReturnedFrom("column")
    /\ fetched.source = fetched.target
    /\ Len(fetched.source[1]) = 2
    /\ Len(column_results) = 8
    /\ \A i \in DOMAIN column_results : column_results[i].status = "MATCH"

-----------------------------------------------------------------------------
\* the (schema, table) pairs both databases hold: the schema is in both schema
\* lists and the table in both table lists of that schema
CommonPairs == db["source"] \cap db["target"]

\* the provider queries the three table-level validators make
ValidatorOps == {"get_row_count", "get_columns", "get_constraints"}

\* the positions main() reaches only after both loops have run to their end
LoopsDone == {"routine", "write", "close_source", "close_target", "done"}

\* the calls made of one query on one side for one pair
CallsOf(side, op, pair) ==
    {i \in DOMAIN calls : calls[i] = Call(side, op, pair[1], pair[2])}

PairsIn(results) == {<<results[i].schema, results[i].table>> : i \in DOMAIN results}

\* C9: main() runs the row-count, column and constraint validators for exactly
\* the (schema, table) pairs both databases hold.  No other pair is ever passed
\* to a validator or appears in a result sequence, and once the loops are over
\* each validator has queried both sides exactly once for every common pair.
C9_Scope ==
    /\ \A i \in DOMAIN calls :
          calls[i].op \in ValidatorOps =>
             <<calls[i].schema, calls[i].table>> \in CommonPairs
    /\ \A i \in DOMAIN calls :
          calls[i].op = "list_tables" =>
             calls[i].schema \in {e[1] : e \in db["source"]} \cap {e[1] : e \in db["target"]}
    /\ PairsIn(row_count_results) \subseteq CommonPairs
    /\ PairsIn(column_results) \subseteq CommonPairs
    /\ PairsIn(constraint_results) \subseteq CommonPairs
    /\ pc \in LoopsDone =>
          /\ \A pair \in CommonPairs, op \in ValidatorOps, side \in Sides :
                Cardinality(CallsOf(side, op, pair)) = 1
          /\ PairsIn(row_count_results) = CommonPairs
          /\ PairsIn(column_results) = CommonPairs
          /\ PairsIn(constraint_results) = CommonPairs

\* source schemas public and staging, target schemas public and archive: the
\* run ends with public.orders as the only pair compared
C9_Witness ==
    /\ pc = "done"
    /\ db["source"] = { << <<"p","u","b","l","i","c">>, <<"o","r","d","e","r","s">> >>,
                        << <<"s","t","a","g","i","n","g">>, <<"o","r","d","e","r","s">> >> }
    /\ db["target"] = { << <<"p","u","b","l","i","c">>, <<"o","r","d","e","r","s">> >>,
                        << <<"a","r","c","h","i","v","e">>, <<"o","r","d","e","r","s">> >> }
    /\ Len(row_count_results) = 1
    /\ row_count_results[1].schema = <<"p","u","b","l","i","c">>
    /\ PairsIn(column_results) = CommonPairs
    /\ report # None

-----------------------------------------------------------------------------
\* C10: a failed run reports nothing.  Once a call has raised, main() is
\* aborted for good with the exception and ExcelReporter.write has not been and
\* will not be called; when a connect() raised, no query was made and no
\* validator ran; and a report that was written covers every common pair.
C10_AllOrNothing ==
    /\ error # None => (pc = "aborted" /\ report = None)
    /\ pc = "aborted" => (error # None /\ ~ENABLED Next)
    /\ (error # None /\ error[1].op = "connect") =>
          /\ \A i \in DOMAIN calls : calls[i].op = "connect"
          /\ row_count_results = << >> /\ column_results = << >>
          /\ constraint_results = << >> /\ routine_results = << >>
    /\ report # None =>
          /\ error = None
          /\ Len(report[1].row_counts) = Cardinality(CommonPairs)
          /\ PairsIn(report[1].column_results) = CommonPairs
          /\ PairsIn(report[1].constraint_results) = CommonPairs
          /\ report[1].routine_results = routine_results

\* the constraint query of the second pair raises: the results of the first
\* pair are there, and no report is
C10_Witness ==
    /\ pc = "aborted"
    /\ error # None
    /\ error[1].op = "get_constraints"
    /\ Len(row_count_results) = 2
    /\ PairsIn(constraint_results) # {}
    /\ PairsIn(constraint_results) # CommonPairs
    /\ report = None

-----------------------------------------------------------------------------
\* main() has returned, or an exception has left it
RunEnded == pc \in {"done", "aborted"}

\* C11: when a run of main() ends, by returning or by an exception of
\* connect(), of a query or of reporter.write, no connection that was opened is
\* still open.
C11_ConnectionsReleased ==
    RunEnded => \A side \in Sides : conn[side] # "open"

-----------------------------------------------------------------------------
\* the order of the traversal: by schema, and by table within a schema
PairLess(p, q) == StrLess(p[1], q[1]) \/ (p[1] = q[1] /\ StrLess(p[2], q[2]))

\* the calls of main() that are of these operations, in call order
CallsAmong(ops) == SelectSeq(calls, LAMBDA c : c.op \in ops)

\* the six queries the three table-level validators make for one pair
PairQueries(pair) ==
    << Call("source", "get_row_count", pair[1], pair[2]),
       Call("target", "get_row_count", pair[1], pair[2]),
       Call("source", "get_columns", pair[1], pair[2]),
       Call("target", "get_columns", pair[1], pair[2]),
       Call("source", "get_constraints", pair[1], pair[2]),
       Call("target", "get_constraints", pair[1], pair[2]) >>

\* the records of a result sequence follow the traversal: never back to an
\* earlier pair
InTraversalOrder(results) ==
    \A i, j \in DOMAIN results :
        i < j => ~PairLess(<<results[j].schema, results[j].table>>,
                           <<results[i].schema, results[i].table>>)

\* C12: main() connects the source and then the target before any query, and
\* closes a connection only after reporter.write.  A run that returns has
\* visited the common pairs in ascending schema order and ascending table order
\* within a schema, has queried for each pair the row counts, then the columns,
\* then the constraints (source before target), each after the table lists of
\* the pair's schema; the row-count sequence has one record per common pair in
\* that order and the column and constraint sequences follow it; the routine
\* validator ran once, after the last pair; reporter.write was called once,
\* after it, with the four sequences; and the two close() calls came last.
C12_Ordering ==
    /\ \A i \in DOMAIN calls :
          calls[i].op # "connect" =>
             /\ i > 2
             /\ calls[1] = Call("source", "connect", << >>, << >>)
             /\ calls[2] = Call("target", "connect", << >>, << >>)
    /\ \A i \in DOMAIN calls :
          calls[i].op = "close" =>
             \E j \in 1..(i - 1) : calls[j].op = "write" /\ report # None
    /\ pc = "done" =>
          LET queries == CallsAmong(ValidatorOps)
              n       == Cardinality(CommonPairs)
              last    == Len(calls)
              pair(k) == <<queries[6 * k].schema, queries[6 * k].table>>
          IN  /\ SubSeq(calls, 3, 4) = << Call("source", "list_schemas", << >>, << >>),
                                          Call("target", "list_schemas", << >>, << >>) >>
              /\ Len(queries) = 6 * n
              /\ \A k \in 1..n :
                    /\ pair(k) \in CommonPairs
                    /\ SubSeq(queries, 6 * k - 5, 6 * k) = PairQueries(pair(k))
                    /\ k > 1 => PairLess(pair(k - 1), pair(k))
                    /\ row_count_results[k].schema = pair(k)[1]
                    /\ row_count_results[k].table = pair(k)[2]
              /\ Len(row_count_results) = n
              /\ InTraversalOrder(column_results)
              /\ InTraversalOrder(constraint_results)
              /\ \A i \in DOMAIN calls :
                    calls[i].op \in ValidatorOps =>
                       \A side \in Sides :
                          \E j \in 5..(i - 1) :
                             calls[j] = Call(side, "list_tables", calls[i].schema, << >>)
              /\ CallsAmong({"get_procedures", "get_functions", "get_triggers"})
                    = RoutineQueries
              /\ SubSeq(calls, last - 8, last - 3) = RoutineQueries
              /\ CallsAmong({"write"}) = << Call("reporter", "write", << >>, << >>) >>
              /\ SubSeq(calls, last - 2, last)
                    = << Call("reporter", "write", << >>, << >>),
                         Call("source", "close", << >>, << >>),
                         Call("target", "close", << >>, << >>) >>
              /\ report = Some([row_counts         |-> row_count_results,
                                column_results     |-> column_results,
                                constraint_results |-> constraint_results,
                                routine_results    |-> routine_results])

\* a run over the two tables ORDERS and orders of one schema, in that order
C12_Witness ==
    /\ pc = "done"
    /\ Len(row_count_results) = 2
    /\ row_count_results[1].schema = row_count_results[2].schema
    /\ row_count_results[1].table = <<"O","R","D","E","R","S">>
    /\ row_count_results[2].table = <<"o","r","d","e","r","s">>
    /\ Len(column_results) = 10
    /\ Len(constraint_results) = 4
    /\ Len(routine_results) = 2

-----------------------------------------------------------------------------
\* the (schema, table) pairs a result sequence has records for, whatever the
\* letter case they are reported in
ComparedAs(results, schema, table) ==
    \E i \in DOMAIN results :
        SameName(results[i].schema, schema) /\ SameName(results[i].table, table)

\* C13: every identifier is compared without regard to letter case.  When the
\* loops of main() are over, a table that the source and the target hold under
\* schema and table names differing at most in letter case has been compared
\* (it has a row-count, column and constraint record); and a column, constraint
\* or routine name that both sides list, in whatever case, is not reported as
\* missing on either side.
C13_CaseNormalization ==
    pc \in LoopsDone =>
        /\ \A s \in db["source"], t \in db["target"] :
              (SameName(s[1], t[1]) /\ SameName(s[2], t[2])) =>
                 /\ ComparedAs(row_count_results, s[1], s[2])
                 /\ ComparedAs(column_results, s[1], s[2])
                 /\ ComparedAs(constraint_results, s[1], s[2])
        /\ \A i \in DOMAIN column_results :
              LET r == column_results[i]
              IN  (/\ HasColumn(StoredColumns("source", r.schema, r.table), r.column)
                   /\ HasColumn(StoredColumns("target", r.schema, r.table), r.column))
                     => r.check_type # "COLUMN_EXISTENCE"
        /\ \A i \in DOMAIN constraint_results :
              LET r == constraint_results[i]
              IN  (/\ HasConstraint(StoredConstraints("source", r.schema, r.table),
                                    r.constraint)
                   /\ HasConstraint(StoredConstraints("target", r.schema, r.table),
                                    r.constraint))
                     => r.check_type # "CONSTRAINT_EXISTENCE"
        /\ \A i \in DOMAIN routine_results :
              LET r == routine_results[i]
              IN  (r.object_type = "PROCEDURE"
                   /\ HasObject(StoredRoutines("source").procedures, r.object_name)
                   /\ HasObject(StoredRoutines("target").procedures, r.object_name))
                     => r.status = "MATCH"

-----------------------------------------------------------------------------
\* the names a list of entries holds, given the name of each entry
NamesIn(names) == Range(names)

\* the identifiers ids of an output are driven by the input names: each is
\* upper-cased and is the name of an input entry, every input name has one, and
\* they ascend, so that the records of one identifier are contiguous
DrivenBy(ids, names) ==
    /\ \A i \in DOMAIN ids :
          IsUpperCased(ids[i]) /\ \E n \in names : SameName(ids[i], n)
    /\ \A n \in names : \E i \in DOMAIN ids : SameName(ids[i], n)
    /\ \A i, j \in DOMAIN ids : i < j => (ids[i] = ids[j] \/ StrLess(ids[i], ids[j]))

\* no two entries of a list of names differ at most in letter case
DistinctNames(names) ==
    \A i, j \in DOMAIN names : i # j => ~SameName(names[i], names[j])

\* the lists that hold the entries of a list in another order
Reordered(list) ==
    {[i \in DOMAIN list |-> list[p[i]]] : p \in Permutations(DOMAIN list)} \ {list}

ColumnNamesOf(columns) == [i \in DOMAIN columns |-> columns[i].column_name]

ConstraintNamesOf(constraints) ==
    [i \in DOMAIN constraints |-> constraints[i].constraint_name]

\* the check types of the records of one column, in output order
CheckTypesOf(name) ==
    LET at == Ascending(ColumnRecordsOf(name))
    IN  [k \in DOMAIN at |-> column_results[at[k]].check_type]

\* the routine records of one object type, in output order
RoutineRecordsIn(object_type) ==
    SelectSeq(routine_results, LAMBDA r : r.object_type = object_type)

\* a side's three lists with the list of one object type replaced
WithList(side, t, list) ==
    IF t = 1 THEN [side EXCEPT !.procedures = list]
    ELSE IF t = 2 THEN [side EXCEPT !.functions = list]
    ELSE [side EXCEPT !.triggers = list]

\* C14 for ColumnValidator.validate
ColumnsDriven ==
    ReturnedFrom("column") =>
        LET source == fetched.source[1]
            target == fetched.target[1]
        IN  /\ DrivenBy([i \in DOMAIN column_results |-> column_results[i].column],
                        NamesIn(ColumnNamesOf(source)) \cup NamesIn(ColumnNamesOf(target)))
            /\ \A i \in DOMAIN column_results :
                  CheckTypesOf(column_results[i].column)
                     \in { <<"COLUMN_EXISTENCE">>,
                           <<"DATA_TYPE", "LENGTH", "PRECISION", "SCALE">> }
            /\ DistinctNames(ColumnNamesOf(source)) =>
                  \A other \in Reordered(source) :
                     ColumnValidate(other, target, fetched.schema, fetched.table)
                        = column_results
            /\ DistinctNames(ColumnNamesOf(target)) =>
                  \A other \in Reordered(target) :
                     ColumnValidate(source, other, fetched.schema, fetched.table)
                        = column_results

\* C14 for ConstraintValidator.validate
ConstraintsDriven ==
    ReturnedFrom("constraint") =>
        LET source == fetched.source[1]
            target == fetched.target[1]
        IN  /\ DrivenBy([i \in DOMAIN constraint_results |->
                            constraint_results[i].constraint],
                        NamesIn(ConstraintNamesOf(source))
                           \cup NamesIn(ConstraintNamesOf(target)))
            /\ \A i, j \in DOMAIN constraint_results :
                  i # j => constraint_results[i].constraint
                              # constraint_results[j].constraint
            /\ DistinctNames(ConstraintNamesOf(source)) =>
                  \A other \in Reordered(source) :
                     ConstraintValidate(other, target, fetched.schema, fetched.table)
                        = constraint_results
            /\ DistinctNames(ConstraintNamesOf(target)) =>
                  \A other \in Reordered(target) :
                     ConstraintValidate(source, other, fetched.schema, fetched.table)
                        = constraint_results

\* C14 for each object type of RoutineValidator.validate
RoutinesDriven ==
    ReturnedFrom("routine") =>
        LET source == fetched.source[1]
            target == fetched.target[1]
        IN  /\ routine_results = RoutineRecordsIn("PROCEDURE")
                                    \o RoutineRecordsIn("FUNCTION")
                                    \o RoutineRecordsIn("TRIGGER")
            /\ \A t \in DOMAIN ObjectTypes :
                  LET records == RoutineRecordsIn(ObjectTypes[t])
                      lists   == ListsOf(ObjectTypes[t])
                  IN  /\ DrivenBy([i \in DOMAIN records |-> records[i].object_name],
                                  NamesIn(lists[1]) \cup NamesIn(lists[2]))
                      /\ \A i, j \in DOMAIN records :
                            i # j => records[i].object_name # records[j].object_name
                      /\ DistinctNames(lists[1]) =>
                            \A other \in Reordered(lists[1]) :
                               RoutineValidate(WithList(source, t, other), target)
                                  = routine_results
                      /\ DistinctNames(lists[2]) =>
                            \A other \in Reordered(lists[2]) :
                               RoutineValidate(source, WithList(target, t, other))
                                  = routine_results

\* C14: the identifiers in the output of the column validator, of the
\* constraint validator and of each object type of the routine validator are,
\* in order of first appearance, the upper-cased names of the two sides in
\* ascending order: none is left out, none is added, the records of one
\* identifier are contiguous (one existence record, or DATA_TYPE, LENGTH,
\* PRECISION, SCALE in that order), and listing the entries of a side, their
\* names distinct, in another order gives the same output.
C14_DrivingSet == ColumnsDriven /\ ConstraintsDriven /\ RoutinesDriven

\* source columns note, id and target column ID: the records are the four of
\* ID and then the one of NOTE
C14_Witness ==
    /\ ReturnedFrom("column")
    /\ ColumnNamesOf(fetched.source[1]) = << <<"n","o","t","e">>, <<"i","d">> >>
    /\ ColumnNamesOf(fetched.target[1]) = << <<"I","D">> >>
    /\ [i \in DOMAIN column_results |-> column_results[i].column]
          = << <<"I","D">>, <<"I","D">>, <<"I","D">>, <<"I","D">>,
               <<"N","O","T","E">> >>

-----------------------------------------------------------------------------
\* the last call made on a connector
LastCall == calls[Len(calls)]

\* the last call was a query on a connector that is not connected: never
\* connected, or closed since
QueriedNotConnected ==
    /\ calls # << >>
    /\ LastCall.op \in QueryOps
    /\ conn[LastCall.side] # "open"

\* the last call raised and returned nothing
LastCallRaised ==
    /\ pc = "raised"
    /\ error = Some(LastCall)
    /\ fetched[LastCall.side] = None

\* C15 as stated: every query of either connector raises, and returns no
\* value, when the connector is not connected.
C15_NotConnectedAlwaysRaises == QueriedNotConnected => LastCallRaised

\* C15 as the code has it: every query of OracleConnector, and every query of
\* RedshiftConnector but get_triggers, raises and returns no value when the
\* connector is not connected; RedshiftConnector.get_triggers returns the empty
\* list whatever the state of the connection.
C15_NotConnectedRaises ==
    (calls # << >> /\ LastCall.op \in QueryOps) =>
        IF DbType[LastCall.side] = "redshift" /\ LastCall.op = "get_triggers"
        THEN pc = "returned" /\ fetched[LastCall.side] = Some(<< >>)
        ELSE QueriedNotConnected => LastCallRaised

\* a query on the Redshift connector after connect() and close(): it raised
C15_Witness ==
    /\ Len(calls) = 3
    /\ calls[1] = Call("target", "connect", << >>, << >>)
    /\ calls[2] = Call("target", "close", << >>, << >>)
    /\ calls[3].side = "target"
    /\ calls[3].op = "get_procedures"
    /\ conn["target"] = "closed"
    /\ LastCallRaised

-----------------------------------------------------------------------------
\* a step that is a call of close() on the connector of a side
Closing(side) == calls' = Append(calls, Call(side, "close", << >>, << >>))

\* C16: close() on a connected connector closes the driver's connection once
\* and leaves the connector not connected; close() on a connector that is not
\* connected (closed before, or never connected) closes nothing and changes
\* nothing; neither raises, and the other connector is left alone.
C16_CloseIdempotent ==
    [][\A side \in Sides :
          Closing(side) =>
             /\ pc' = "returned"
             /\ error' = error
             /\ conn'[side] # "open"
             /\ closes'[side] = closes[side] + (IF conn[side] = "open" THEN 1 ELSE 0)
             /\ conn[side] # "open" => conn'[side] = conn[side]
             /\ \A other \in Sides \ {side} :
                   conn'[other] = conn[other] /\ closes'[other] = closes[other]]_vars

\* connect(), close(), close() on the Oracle connector: one driver close
C16_Witness ==
    /\ calls = << Call("source", "connect", << >>, << >>),
                  Call("source", "close", << >>, << >>),
                  Call("source", "close", << >>, << >>) >>
    /\ conn["source"] = "closed"
    /\ closes["source"] = 1
    /\ pc = "returned"
    /\ error = None

-----------------------------------------------------------------------------
\* the constraint types that stand for a primary key, a foreign key and a
\* unique constraint, in Oracle's and in Redshift's catalog
KeyKinds == {"P", "R", "U", "PRIMARY KEY", "FOREIGN KEY", "UNIQUE"}

\* C17: what get_constraints returns, on either connector, holds only primary
\* key, foreign key and unique constraints.
C17_ConstraintKinds ==
    (calls # << >> /\ LastCall.op = "get_constraints" /\ pc = "returned") =>
        LET returned == fetched[LastCall.side][1]
        IN  \A i \in DOMAIN returned : returned[i].constraint_type \in KeyKinds

-----------------------------------------------------------------------------
\* the positions of the entries of a list of names that are this name, in
\* whatever letter case
PositionsNamed(names, name) == {i \in DOMAIN names : SameName(names[i], name)}

\* the greatest number of a non-empty set
Greatest(S) == CHOOSE x \in S : \A y \in S : y <= x

\* C18 for ColumnValidator.validate
ColumnCollisions ==
    ReturnedFrom("column") =>
        \A name \in ColumnNames :
            LET source == fetched.source[1]
                target == fetched.target[1]
                in_s   == PositionsNamed(ColumnNamesOf(source), name)
                in_t   == PositionsNamed(ColumnNamesOf(target), name)
                at     == Ascending(ColumnRecordsOf(name))
            IN  (Cardinality(in_s) > 1 \/ Cardinality(in_t) > 1) =>
                    /\ \A k \in DOMAIN at :
                          column_results[at[k]].column = column_results[at[1]].column
                    /\ IF in_s # {} /\ in_t # {}
                       THEN AttributeRecordsAt(at, source[Greatest(in_s)],
                                               target[Greatest(in_t)])
                       ELSE /\ Len(at) = 1
                            /\ column_results[at[1]].check_type = "COLUMN_EXISTENCE"
                            /\ column_results[at[1]].source_value
                                  = ExistenceValue(in_s # {})
                            /\ column_results[at[1]].target_value
                                  = ExistenceValue(in_t # {})

\* C18 for ConstraintValidator.validate
ConstraintCollisions ==
    ReturnedFrom("constraint") =>
        \A name \in ConstraintNames :
            LET source == fetched.source[1]
                target == fetched.target[1]
                in_s   == PositionsNamed(ConstraintNamesOf(source), name)
                in_t   == PositionsNamed(ConstraintNamesOf(target), name)
                at     == Ascending(ConstraintRecordsOf(name))
            IN  (Cardinality(in_s) > 1 \/ Cardinality(in_t) > 1) =>
                    /\ Len(at) = 1
                    /\ LET r == constraint_results[at[1]]
                       IN  IF in_s # {} /\ in_t # {}
                           THEN /\ r.check_type = "CONSTRAINT_TYPE"
                                /\ r.source_value = source[Greatest(in_s)].constraint_type
                                /\ r.target_value = target[Greatest(in_t)].constraint_type
                                /\ r.status = MatchIff(r.source_value = r.target_value)
                           ELSE /\ r.check_type = "CONSTRAINT_EXISTENCE"
                                /\ r.status = "MISMATCH"
                                /\ in_s # {} =>
                                      r.source_value = source[Greatest(in_s)].constraint_type
                                /\ in_t # {} =>
                                      r.target_value = target[Greatest(in_t)].constraint_type

\* C18: when a side lists a column (a constraint) more than once, under names
\* that differ at most in letter case, the validator compares the last entry
\* of that name in list order and ignores the earlier ones: the name is
\* reported once, under one upper-cased name, in one existence record or in
\* the four attribute records (the one type record) of the last entries, and
\* in no further record.
C18_LastDuplicateWins == ColumnCollisions /\ ConstraintCollisions

\* the source lists id as an integer and then ID as a character column, the
\* target lists id as a character column: four records, all MATCH
C18_Witness ==
    /\ ReturnedFrom("column")
    /\ fetched.source[1] = << Column(<<"i","d">>, "INT", None, Some(10), Some(0)),
                              Column(<<"I","D">>, "VARCHAR", Some(10), None, None) >>
    /\ fetched.target[1] = << Column(<<"i","d">>, "VARCHAR", Some(10), None, None) >>
    /\ Len(column_results) = 4
    /\ \A i \in DOMAIN column_results : column_results[i].status = "MATCH"

=============================================================================
